---- MODULE Spec2Model ----
(***************************************************************************)
(* kasmapi: a client library (kasmapi/kasm.py, kasmapi/models.py,          *)
(* kasmapi/utils.py) and a CLI (main.py) for a workspace service.          *)
(*                                                                         *)
(* The program is single-threaded and synchronous.  One operation runs at  *)
(* a time; pc is the position inside it.  Every outbound HTTP request and  *)
(* every printed line is appended to events, in program order.  The        *)
(* service is the environment: the status of each response and the payload *)
(* of each successful response are chosen nondeterministically.            *)
(***************************************************************************)
EXTENDS Integers, Sequences, FiniteSets, TLC

(* ------------------------------ bounds --------------------------------- *)

\* Largest number of sessions the service lists (response field "kasms").
MaxSessions == 2

\* Number of operations started in one behaviour.
MaxCalls == 2

\* Largest number of API configurations the service lists.
MaxConfigs == 2

\* Largest number of group references in a get_user / get_users response.
MaxGroups == 1

(* ----------------------- constants of the program ---------------------- *)

None == "None"

ALL_USERS_GROUP_ID == "68d557ac4cac42cca9f31c7c853de0f3"

OTHER_GROUP_ID == "0ther9r0up"

DEFAULT_HOURS == 6

\* kasm_id values the service may report, in listing order.
SessionPool == <<"abc", "def", "ghi", "jkl">>

SessionIds == {SessionPool[i] : i \in 1..MaxSessions}

\* The listings the service may answer get_kasms with: 0..MaxSessions sessions.
SessionLists == {SubSeq(SessionPool, 1, n) : n \in 0..MaxSessions}

\* Values the keepalive_expiration setting may hold before the program runs.
OrigValues == {21600, 7200}

\* What the operator may type at the two prompts of the CLI.
ChoiceInputs == {"", "0", "1", "2", "3", "x"}

HourInputs == {"", "1", "2", "x"}

\* Values a caller may pass to Setting.set_value.
SetValues == {3600, 7200}

\* The body of a response that lists nothing.
NoResponse == [kasms |-> <<>>]

\* No API configuration: what next(filter(...)) has when nothing matches.
NoConfig == [name |-> None, api_key |-> None]

\* Outcome of one HTTP exchange: a success status, a non-success status
\* (raise_for_status raises HTTPError), or no response at all (requests.post
\* raises ConnectionError).
Resps == {"ok", "status", "network"}

ErrOf(resp) == IF resp = "status" THEN "HTTPError" ELSE "ConnectionError"

\* int(s) of Python on the inputs above: IsInt(s) is false where int(s) raises
\* ValueError, IntOf(s) is the number otherwise.
IsInt(s) == s \in {"0", "1", "2", "3"}

IntOf(s) ==
    CASE s = "0" -> 0
      [] s = "1" -> 1
      [] s = "2" -> 2
      [] s = "3" -> 3

\* xs[i] of Python on a list, i a 0-based index: negative indices count from
\* the end; None stands for IndexError.
PyIndex(xs, i) ==
    IF i >= 0 /\ i < Len(xs) THEN xs[i + 1]
    ELSE IF i < 0 /\ i >= -Len(xs) THEN xs[Len(xs) + i + 1]
    ELSE None

(* ------------------------------- state --------------------------------- *)

VARIABLES
    API_KEY,         \* main.py module global, getenv("API_KEY") or None
    API_KEY_SECRET,  \* main.py module global, getenv("API_KEY_SECRET") or None
    serverMode,      \* how the service resolves the row of a setting write
    remoteValue,     \* service: keepalive_expiration of the all-users group
    preValue,        \* remoteValue when the current operation started
    calls,           \* operations started so far
    op,              \* the operation running, None when idle
    pc,              \* position inside the operation
    events,          \* requests sent and lines printed by the operation
    err,             \* exception the operation ended with, None if none
    sessions,        \* main: kasm ids of sessions_resp.json()["kasms"]
    keepalive,       \* main: keepalive_setting['value'] read at the start
    session_id,      \* main: the selected kasm_id
    choice,          \* main: what was typed at the session prompt
    extra_hours,     \* main: what was typed at the hours prompt
    api_configs,     \* guard: what get_api_configs() returned
    api_config,      \* guard: the configuration matching the client's key
    granted,         \* guard: current_permissions
    missing,         \* guard: missing_permissions
    invoked,         \* guard: times the wrapped function was called
    kasm_id,         \* Session: self.kasm_id of the bound session
    pending,         \* User.from_api: groups still to be built
    response,        \* Kasm._get_models: the body of the response it read
    result,          \* what the operation returned
    value,           \* Setting: self.value, the local copy
    committed,       \* value of the last acknowledged write of this Setting
    arg              \* Setting.set_value: the value argument

vars == <<API_KEY, API_KEY_SECRET, serverMode, remoteValue, preValue, calls, op,
          pc, events, err, sessions, keepalive, session_id, choice,
          extra_hours,
          api_configs, api_config, granted, missing, invoked, kasm_id, pending,
          response, result, value, committed, arg>>

envVars == <<API_KEY, API_KEY_SECRET, serverMode>>

mainLocals == <<sessions, keepalive, session_id, choice, extra_hours>>

guardLocals == <<api_configs, api_config, granted, missing, invoked>>

opLocals == <<kasm_id, pending, response, result, arg>>

settingVars == <<value, committed>>

libVars == <<guardLocals, opLocals, settingVars>>

(* ------------------------------ events --------------------------------- *)

\* main.get_json(request_json): the credentials merged with the request body.
\* The request goes to endpoint ep; group is target_group.group_id, target
\* is kasm_id or the name of target_api_config, val is target_setting.value.
get_json(ep, group, target, val) ==
    [ep |-> ep, api_key |-> API_KEY, api_key_secret |-> API_KEY_SECRET,
     group |-> group, target |-> target, value |-> val]

\* The event of one exchange: the request body, the outcome, and the
\* usage_reached field of a successful keepalive response.
Sent(json, resp, usage_reached) ==
    [kind |-> "req", ep |-> json.ep, api_key |-> json.api_key,
     api_key_secret |-> json.api_key_secret, group |-> json.group,
     target |-> json.target, value |-> json.value, resp |-> resp,
     usage_reached |-> (resp = "ok" /\ usage_reached)]

\* The event of one print(...).
Printed(msg) ==
    [kind |-> "print", ep |-> msg, api_key |-> None, api_key_secret |-> None,
     group |-> None, target |-> None, value |-> 0, resp |-> "ok",
     usage_reached |-> FALSE]

MSG_NONE == "No active or paused sessions found."

MSG_ERROR == "ERROR"

MSG_QUOTA == "ERROR: Session not modified, usage quota reached!"

MSG_SUCCESS == "Session expiration updated successfully!"

\* The service applying an acknowledged update_settings_group request.  The
\* request names the row twice (target_group.group_id and
\* target_setting.group_setting_id); a service that resolves the row by the
\* setting id alone writes the all-users row whatever group is named, one
\* that honours target_group writes only the named group's row.
ServerWrite(group, val) ==
    IF serverMode = "by_setting" \/ group = ALL_USERS_GROUP_ID
    THEN val
    ELSE remoteValue

Finish(e) ==
    /\ pc' = "done"
    /\ err' = e

(* ------------------------------- Init ---------------------------------- *)

Init ==
    /\ API_KEY \in {"k1", None}
    /\ API_KEY_SECRET \in {"s1", None}
    /\ serverMode \in {"by_setting", "by_group"}
    /\ remoteValue \in OrigValues
    /\ preValue = remoteValue
    /\ calls = 0
    /\ op = None
    /\ pc = "idle"
    /\ events = <<>>
    /\ err = None
    /\ sessions = <<>>
    /\ keepalive = 0
    /\ session_id = None
    /\ choice = ""
    /\ extra_hours = ""
    /\ api_configs = <<>>
    /\ api_config = NoConfig
    /\ granted = {}
    /\ missing = <<>>
    /\ invoked = 0
    /\ kasm_id = None
    /\ pending = 0
    /\ response = NoResponse
    /\ result = <<>>
    /\ value = remoteValue
    /\ committed = remoteValue
    /\ arg = 0

(* ------------------------------ main.py -------------------------------- *)

\* main.py 53-63: fetch the sessions; stop when there are none.
MainGetKasms ==
    /\ pc = "m_get_kasms"
    /\ \E resp \in Resps, kasms \in SessionLists :
         LET req == Sent(get_json("public/get_kasms", None, None, 0), resp, FALSE) IN
         IF resp # "ok"
         THEN /\ events' = Append(events, req)
              /\ Finish(ErrOf(resp))
              /\ UNCHANGED sessions
         ELSE /\ sessions' = kasms
              /\ IF kasms = <<>>
                 THEN /\ events' = events \o <<req, Printed(MSG_NONE)>>
                      /\ Finish(None)
                 ELSE /\ events' = Append(events, req)
                      /\ pc' = "m_get_settings"
                      /\ UNCHANGED err
    /\ UNCHANGED libVars
    /\ UNCHANGED <<envVars, remoteValue, preValue, calls, op, keepalive,
                   session_id, choice, extra_hours>>

\* main.py 66-76: read the keepalive_expiration setting of the all-users
\* group; next(filter(...)) raises StopIteration when the response holds no
\* setting of that name; a setting of another group ends the run.
MainGetSettings ==
    /\ pc = "m_get_settings"
    /\ \E resp \in Resps, found \in BOOLEAN,
          owner \in {ALL_USERS_GROUP_ID, OTHER_GROUP_ID} :
         LET req == Sent(get_json("admin/get_settings_group", ALL_USERS_GROUP_ID,
                             None, 0), resp, FALSE) IN
         IF resp # "ok"
         THEN /\ events' = Append(events, req)
              /\ Finish(ErrOf(resp))
              /\ UNCHANGED keepalive
         ELSE IF ~found
         THEN /\ events' = Append(events, req)
              /\ Finish("StopIteration")
              /\ UNCHANGED keepalive
         ELSE /\ keepalive' = remoteValue
              /\ IF owner # ALL_USERS_GROUP_ID
                 THEN /\ events' = events \o <<req, Printed(MSG_ERROR)>>
                      /\ Finish(None)
                 ELSE /\ events' = Append(events, req)
                      /\ pc' = "m_input"
                      /\ UNCHANGED err
    /\ UNCHANGED libVars
    /\ UNCHANGED <<envVars, remoteValue, preValue, calls, op, sessions,
                   session_id, choice, extra_hours>>

\* main.py 80-81: enumerate(sessions, 1) prints session i of the list under
\* the number i.
DisplayedUnder(kasms, n) == kasms[n]

\* main.py 84: sessions[int(choice) - 1 if choice else 0]['kasm_id'].
SelectSession(kasms, c) ==
    IF c = "" THEN PyIndex(kasms, 0)
    ELSE IF ~IsInt(c) THEN None
    ELSE PyIndex(kasms, IntOf(c) - 1)

\* The hours turned into minutes, not seconds.
NewExpiration_Minutes(h) ==
    (IF h = "" THEN DEFAULT_HOURS ELSE IntOf(h)) * 60

\* main.py 89: (int(extra_hours) if extra_hours else DEFAULT_HOURS)*60*60.
NewExpiration(h) ==
    (IF h = "" THEN DEFAULT_HOURS ELSE IntOf(h)) * 60 * 60

\* main.py 79-87: the two prompts.  int(choice) raises ValueError on a
\* non-number and the list index raises IndexError out of range, both before
\* the second prompt.
MainInput ==
    /\ pc = "m_input"
    /\ \E c \in ChoiceInputs, h \in HourInputs :
         /\ choice' = c
         /\ IF c # "" /\ ~IsInt(c)
            THEN /\ Finish("ValueError")
                 /\ UNCHANGED <<session_id, extra_hours>>
            ELSE IF SelectSession(sessions, c) = None
            THEN /\ Finish("IndexError")
                 /\ UNCHANGED <<session_id, extra_hours>>
            ELSE /\ session_id' = SelectSession(sessions, c)
                 /\ extra_hours' = h
                 /\ pc' = "m_raise"
                 /\ UNCHANGED err
    /\ UNCHANGED libVars
    /\ UNCHANGED <<envVars, remoteValue, preValue, calls, op, events, sessions,
                   keepalive>>

\* main.py 20-34: set_keepalive(group_id, group_setting_id, value), one
\* update_settings_group request followed by raise_for_status.
set_keepalive(group_id, val, resp) ==
    /\ events' = Append(events, Sent(get_json("admin/update_settings_group",
                                         group_id, None, val), resp, FALSE))
    /\ remoteValue' = IF resp = "ok" THEN ServerWrite(group_id, val)
                      ELSE remoteValue

\* main.py 89: the temporary write, addressed to the all-users group;
\* int(extra_hours) raises ValueError on a non-number, before any request.
MainRaise ==
    /\ pc = "m_raise"
    /\ IF extra_hours # "" /\ ~IsInt(extra_hours)
       THEN /\ Finish("ValueError")
            /\ UNCHANGED <<events, remoteValue>>
       ELSE \E resp \in Resps :
              /\ set_keepalive(ALL_USERS_GROUP_ID, NewExpiration(extra_hours),
                               resp)
              /\ IF resp = "ok"
                 THEN pc' = "m_keepalive" /\ UNCHANGED err
                 ELSE Finish(ErrOf(resp))
    /\ UNCHANGED libVars
    /\ UNCHANGED <<envVars, preValue, calls, op, mainLocals>>

\* main.py 92-99: the keepalive request; on usage_reached the error line is
\* printed before the restore write.
MainKeepalive ==
    /\ pc = "m_keepalive"
    /\ \E resp \in Resps, usage_reached \in BOOLEAN :
         LET req == Sent(get_json("public/keepalive", None, session_id, 0), resp, usage_reached) IN
         IF resp # "ok"
         THEN /\ events' = Append(events, req)
              /\ Finish(ErrOf(resp))
         ELSE IF usage_reached
         THEN /\ events' = events \o <<req, Printed(MSG_QUOTA)>>
              /\ pc' = "m_restore_quota"
              /\ UNCHANGED err
         ELSE /\ events' = Append(events, req)
              /\ pc' = "m_restore_ok"
              /\ UNCHANGED err
    /\ UNCHANGED libVars
    /\ UNCHANGED <<envVars, remoteValue, preValue, calls, op, mainLocals>>

\* The quota path without its return: it falls through to the success path.
MainRestoreQuota_NoReturn ==
    /\ pc = "m_restore_quota"
    /\ \E resp \in Resps :
         /\ set_keepalive(session_id, keepalive, resp)
         /\ pc' = IF resp = "ok" THEN "m_restore_ok" ELSE "done"
         /\ err' = IF resp = "ok" THEN None ELSE ErrOf(resp)
    /\ UNCHANGED libVars
    /\ UNCHANGED <<envVars, preValue, calls, op, mainLocals>>

\* main.py 100-101: the restore write of the quota path; the group it names
\* is session_id.
MainRestoreQuota ==
    /\ pc = "m_restore_quota"
    /\ \E resp \in Resps :
         /\ set_keepalive(session_id, keepalive, resp)
         /\ Finish(IF resp = "ok" THEN None ELSE ErrOf(resp))
    /\ UNCHANGED libVars
    /\ UNCHANGED <<envVars, preValue, calls, op, mainLocals>>

\* main.py 103-105: the restore write of the success path (the group it
\* names is session_id), then the success line.
MainRestoreOk ==
    /\ pc = "m_restore_ok"
    /\ \E resp \in Resps :
         /\ set_keepalive(session_id, keepalive, resp)
         /\ pc' = IF resp = "ok" THEN "m_success" ELSE "done"
         /\ err' = IF resp = "ok" THEN None ELSE ErrOf(resp)
    /\ UNCHANGED libVars
    /\ UNCHANGED <<envVars, preValue, calls, op, mainLocals>>

MainSuccess ==
    /\ pc = "m_success"
    /\ events' = Append(events, Printed(MSG_SUCCESS))
    /\ Finish(None)
    /\ UNCHANGED libVars
    /\ UNCHANGED <<envVars, remoteValue, preValue, calls, op, mainLocals>>

(* --------------------------- kasmapi/utils.py -------------------------- *)

\* utils.py 19-23: class Permissions(Enum), member name |-> value.
Permissions ==
    [USER |-> "User", USER_AUTH_SESSION |-> "Users Auth Session",
     IMAGES_VIEW |-> "Images View", USERS_VIEW |-> "Users View"]

\* permission_name values the service may report: the four values above and
\* one name that is spelled like a member, not like its value.
GrantNames ==
    {"User", "Users Auth Session", "Images View", "Users View", "USER"}

\* The required_permissions argument of each @check_permissions decorator.
RequiredOf(o) ==
    CASE o = "get_users" -> <<"USERS_VIEW">>
      [] o = "get_images" -> <<"IMAGES_VIEW">>
      [] o \in {"keepalive", "destroy", "request_session"} ->
            <<"USER", "USER_AUTH_SESSION">>

GuardedOps ==
    {"get_users", "get_images", "keepalive", "destroy", "request_session"}

\* First request of the wrapped function of each guarded operation.
BodyEntry(o) ==
    CASE o = "get_users" -> "gu_post"
      [] o = "get_images" -> "gi_post"
      [] o = "keepalive" -> "k_post"
      [] o = "destroy" -> "d_post"
      [] o = "request_session" -> "rs_post"

\* API configurations the service may list.
ConfigPool ==
    {[name |-> "cfgA", api_key |-> "k1"], [name |-> "cfgB", api_key |-> "k2"],
     [name |-> "cfgC", api_key |-> "k1"]}

ConfigLists == UNION {[1..n -> ConfigPool] : n \in 0..MaxConfigs}

\* kasm.py 36-46: Kasm.__init__ stores what it is given; the caller passes
\* the environment's values.
kasm == [api_key |-> API_KEY, api_key_secret |-> API_KEY_SECRET]

\* kasm.py 182-200: Kasm._get_json, the credentials merged with the body.
_get_json(ep, group, target, val) ==
    [ep |-> ep, api_key |-> kasm.api_key,
     api_key_secret |-> kasm.api_key_secret, group |-> group,
     target |-> target, value |-> val]

\* utils.py 48-53: next(filter(lambda config: config.api_key ==
\* _kasm.api_key, configs)); NoConfig stands for StopIteration.
MatchingConfig(configs, key) ==
    LET idx == {i \in 1..Len(configs) : configs[i].api_key = key} IN
    IF idx = {} THEN NoConfig
    ELSE configs[CHOOSE i \in idx : \A j \in idx : i <= j]

\* The comparison made on the members' names instead of their values.
MissingPermissions_ByName(required, current) ==
    SelectSeq(required, LAMBDA p : p \notin current)

\* utils.py 61-65: the required permissions whose value is not among the
\* current permission names, in the order they are required.
MissingPermissions(required, current) ==
    SelectSeq(required, LAMBDA p : Permissions[p] \notin current)

ResetLocals ==
    /\ events' = <<>>
    /\ err' = None
    /\ sessions' = <<>>
    /\ keepalive' = 0
    /\ session_id' = None
    /\ choice' = ""
    /\ extra_hours' = ""
    /\ api_configs' = <<>>
    /\ api_config' = NoConfig
    /\ granted' = {}
    /\ missing' = <<>>
    /\ invoked' = 0
    /\ pending' = 0
    /\ response' = NoResponse
    /\ result' = <<>>

\* A caller starting operation o at position entry, on session k, with
\* argument a.
StartOp(o, entry, k, a) ==
    /\ calls' = calls + 1
    /\ op' = o
    /\ pc' = entry
    /\ kasm_id' = k
    /\ arg' = a
    /\ preValue' = remoteValue
    /\ ResetLocals
    /\ UNCHANGED <<envVars, remoteValue, settingVars>>

\* Starting the CLI: python main.py.
CallMain ==
    /\ pc = "idle"
    /\ calls < MaxCalls
    /\ StartOp("main", "m_get_kasms", None, 0)

CallGetUsers ==
    /\ pc = "idle"
    /\ calls < MaxCalls
    /\ StartOp("get_users", "g_configs", None, 0)

CallGetImages ==
    /\ pc = "idle"
    /\ calls < MaxCalls
    /\ StartOp("get_images", "g_configs", None, 0)

CallKeepalive ==
    /\ pc = "idle"
    /\ calls < MaxCalls
    /\ \E k \in SessionIds : StartOp("keepalive", "g_configs", k, 0)

CallDestroy ==
    /\ pc = "idle"
    /\ calls < MaxCalls
    /\ \E k \in SessionIds : StartOp("destroy", "g_configs", k, 0)

CallRequestSession ==
    /\ pc = "idle"
    /\ calls < MaxCalls
    /\ StartOp("request_session", "g_configs", None, 0)

CallGetUser ==
    /\ pc = "idle"
    /\ calls < MaxCalls
    /\ StartOp("get_user", "gu_post", None, 0)

CallGetSessions ==
    /\ pc = "idle"
    /\ calls < MaxCalls
    /\ StartOp("get_sessions", "gs_post", None, 0)

CallGetSettingsGroup ==
    /\ pc = "idle"
    /\ calls < MaxCalls
    /\ StartOp("get_settings_group", "gsg_post", None, 0)

CallSetValue ==
    /\ pc = "idle"
    /\ calls < MaxCalls
    /\ \E v \in SetValues : StartOp("set_value", "sv_post", None, v)

\* The wrapper calling the wrapped function as soon as a configuration
\* matches, without fetching its permissions.
GuardConfigs_SkipPerms ==
    /\ pc = "g_configs"
    /\ \E resp \in Resps, configs \in ConfigLists :
         /\ events' = Append(events, Sent(_get_json("admin/get_api_configs",
                                                    None, None, 0),
                                          resp, FALSE))
         /\ IF resp # "ok"
            THEN /\ Finish(ErrOf(resp))
                 /\ UNCHANGED <<api_configs, api_config, invoked>>
            ELSE /\ api_configs' = configs
                 /\ api_config' = MatchingConfig(configs, kasm.api_key)
                 /\ IF MatchingConfig(configs, kasm.api_key) = NoConfig
                    THEN Finish("StopIteration") /\ UNCHANGED invoked
                    ELSE /\ invoked' = invoked + 1
                         /\ pc' = BodyEntry(op)
                         /\ UNCHANGED err
    /\ UNCHANGED <<envVars, remoteValue, preValue, calls, op, mainLocals,
                   granted, missing, opLocals, settingVars>>

\* utils.py 48-53 with kasm.py 247-265: the wrapper fetches the API
\* configurations and takes the first whose key is the client's.
GuardConfigs ==
    /\ pc = "g_configs"
    /\ \E resp \in Resps, configs \in ConfigLists :
         /\ events' = Append(events, Sent(_get_json("admin/get_api_configs", None,
                                               None, 0), resp, FALSE))
         /\ IF resp # "ok"
            THEN /\ Finish(ErrOf(resp))
                 /\ UNCHANGED <<api_configs, api_config>>
            ELSE /\ api_configs' = configs
                 /\ api_config' = MatchingConfig(configs, kasm.api_key)
                 /\ IF MatchingConfig(configs, kasm.api_key) = NoConfig
                    THEN Finish("StopIteration")
                    ELSE pc' = "g_perms" /\ UNCHANGED err
    /\ UNCHANGED <<envVars, remoteValue, preValue, calls, op, mainLocals,
                   granted, missing, invoked, opLocals, settingVars>>

\* utils.py 55-69 with kasm.py 267-289: the wrapper fetches the permissions
\* of that configuration, raises ApiPermissionError when a required one is
\* missing and calls the wrapped function otherwise.
GuardPerms ==
    /\ pc = "g_perms"
    /\ \E resp \in Resps, current_permissions \in SUBSET GrantNames :
         /\ events' = Append(events, Sent(_get_json("admin/get_permissions_group",
                                               None, api_config.name, 0), resp, FALSE))
         /\ IF resp # "ok"
            THEN /\ Finish(ErrOf(resp))
                 /\ UNCHANGED <<granted, missing, invoked>>
            ELSE /\ granted' = current_permissions
                 /\ missing' = MissingPermissions(RequiredOf(op),
                                                  current_permissions)
                 /\ IF MissingPermissions(RequiredOf(op),
                                          current_permissions) # <<>>
                    THEN Finish("ApiPermissionError") /\ UNCHANGED invoked
                    ELSE /\ invoked' = invoked + 1
                         /\ pc' = BodyEntry(op)
                         /\ UNCHANGED err
    /\ UNCHANGED <<envVars, remoteValue, preValue, calls, op, mainLocals,
                   api_configs, api_config, opLocals, settingVars>>

(* -------------------------- kasmapi/models.py -------------------------- *)

\* A failed request sent again instead of raising.
Post_Retry(json, resp, next) ==
    /\ events' = Append(events, Sent(json, resp, FALSE))
    /\ IF resp = "ok"
       THEN pc' = next /\ err' = None
       ELSE UNCHANGED <<pc, err>>

\* One request of the client followed by raise_for_status: the request is
\* logged; a failure ends the operation with the transport error.
Post(json, resp, next) ==
    /\ events' = Append(events, Sent(json, resp, FALSE))
    /\ IF resp = "ok"
       THEN pc' = next /\ err' = None
       ELSE Finish(ErrOf(resp))

\* Session.keepalive without the inspection of usage_reached.
SessionKeepalive_IgnoreFlag ==
    /\ pc = "k_post"
    /\ \E resp \in Resps, usage_reached \in BOOLEAN :
         /\ events' = Append(events, Sent(_get_json("public/keepalive", None,
                                                    kasm_id, 0),
                                          resp, usage_reached))
         /\ IF resp # "ok" THEN Finish(ErrOf(resp)) ELSE Finish(None)
    /\ UNCHANGED <<envVars, remoteValue, preValue, calls, op, mainLocals,
                   guardLocals, opLocals, settingVars>>

\* models.py 113-128: Session.keepalive.
SessionKeepalive ==
    /\ pc = "k_post"
    /\ \E resp \in Resps, usage_reached \in BOOLEAN :
         /\ events' = Append(events, Sent(_get_json("public/keepalive", None,
                                               kasm_id, 0), resp, usage_reached))
         /\ IF resp # "ok" THEN Finish(ErrOf(resp))
            ELSE IF usage_reached THEN Finish("UsageQuotaReachedError")
            ELSE Finish(None)
    /\ UNCHANGED <<envVars, remoteValue, preValue, calls, op, mainLocals,
                   guardLocals, opLocals, settingVars>>

\* models.py 130-145: Session.destroy.
SessionDestroy ==
    /\ pc = "d_post"
    /\ \E resp \in Resps :
         Post(_get_json("public/destroy_kasm", None, kasm_id, 0), resp,
                 "done")
    /\ UNCHANGED <<envVars, remoteValue, preValue, calls, op, mainLocals,
                   guardLocals, opLocals, settingVars>>

\* models.py 188-224: User.request_session posts request_kasm, then calls
\* get_session with the kasm_id of the response.
RequestSession ==
    /\ pc = "rs_post"
    /\ \E resp \in Resps, k \in SessionIds :
         /\ Post(_get_json("public/request_kasm", None, None, 0), resp,
                 "rs_status")
         /\ kasm_id' = IF resp = "ok" THEN k ELSE kasm_id
    /\ UNCHANGED <<envVars, remoteValue, preValue, calls, op, mainLocals,
                   guardLocals, pending, response, result, arg, settingVars>>

\* models.py 23-36: KasmObject.from_api builds the record of one entry of a
\* response; of a session the model keeps its kasm_id.
from_api(data) == [kasm_id |-> data]

\* models.py 226-246: User.get_session.
GetSession ==
    /\ pc = "rs_status"
    /\ \E resp \in Resps :
         /\ Post(_get_json("public/get_kasm_status", None, kasm_id, 0), resp,
                 "done")
         /\ result' = IF resp = "ok" THEN <<from_api(kasm_id)>> ELSE result
    /\ UNCHANGED <<envVars, remoteValue, preValue, calls, op, mainLocals,
                   guardLocals, kasm_id, pending, response, arg, settingVars>>

\* Setting.set_value assigning self.value before the request is acknowledged.
SetValuePost_Optimistic ==
    /\ pc = "sv_post"
    /\ \E resp \in Resps :
         /\ Post(_get_json("admin/update_settings_group", ALL_USERS_GROUP_ID,
                           None, arg), resp, "sv_assign")
         /\ remoteValue' = IF resp = "ok"
                           THEN ServerWrite(ALL_USERS_GROUP_ID, arg)
                           ELSE remoteValue
         /\ committed' = IF resp = "ok" THEN arg ELSE committed
         /\ value' = arg
    /\ UNCHANGED <<envVars, preValue, calls, op, mainLocals, guardLocals,
                   opLocals>>

\* models.py 72-88: Setting.set_value sends the update and raises on a
\* failure; the Setting belongs to the all-users group.
SetValuePost ==
    /\ pc = "sv_post"
    /\ \E resp \in Resps :
         /\ Post(_get_json("admin/update_settings_group", ALL_USERS_GROUP_ID,
                           None, arg), resp,
                 "sv_assign")
         /\ remoteValue' = IF resp = "ok"
                           THEN ServerWrite(ALL_USERS_GROUP_ID, arg)
                           ELSE remoteValue
         /\ committed' = IF resp = "ok" THEN arg ELSE committed
    /\ UNCHANGED <<envVars, preValue, calls, op, mainLocals, guardLocals,
                   opLocals, value>>

\* models.py 89: self.value = value.
SetValueAssign ==
    /\ pc = "sv_assign"
    /\ value' = arg
    /\ Finish(None)
    /\ UNCHANGED <<envVars, remoteValue, preValue, calls, op, events,
                   mainLocals, guardLocals, opLocals, committed>>

(* --------------------------- kasmapi/kasm.py --------------------------- *)

\* kasm.py 202-221: Kasm.get_settings_group deserializes the settings of the
\* group; the Setting it builds holds the service's value.
GetSettingsGroup ==
    /\ pc = "gsg_post"
    /\ \E resp \in Resps :
         /\ Post(_get_json("admin/get_settings_group", ALL_USERS_GROUP_ID,
                           None, 0), resp,
                 "done")
         /\ value' = IF resp = "ok" THEN remoteValue ELSE value
         /\ committed' = IF resp = "ok" THEN remoteValue ELSE committed
    /\ UNCHANGED <<envVars, remoteValue, preValue, calls, op, mainLocals,
                   guardLocals, opLocals>>

\* kasm.py 228-245: Kasm.get_images.
GetImages ==
    /\ pc = "gi_post"
    /\ \E resp \in Resps :
         Post(_get_json("public/get_images", None, None, 0), resp,
                 "done")
    /\ UNCHANGED <<envVars, remoteValue, preValue, calls, op, mainLocals,
                   guardLocals, opLocals, settingVars>>

\* kasm.py 136-180: Kasm.get_user and Kasm.get_users post one request; each
\* user of the response is built by User.from_api, which builds each of its
\* groups (pending counts them).
GetUsers ==
    /\ pc = "gu_post"
    /\ \E resp \in Resps, n \in 0..MaxGroups :
         /\ Post(_get_json(IF op = "get_user" THEN "public/get_user"
                           ELSE "public/get_users", None, None, 0), resp,
                 IF n = 0 THEN "done" ELSE "gu_groups")
         /\ pending' = IF resp = "ok" THEN n ELSE pending
    /\ UNCHANGED <<envVars, remoteValue, preValue, calls, op, mainLocals,
                   guardLocals, kasm_id, response, result, arg, settingVars>>

\* models.py 155-164: Group.from_api fetches the settings of the group with
\* Kasm.get_settings_group.
GroupFromApi ==
    /\ pc = "gu_groups"
    /\ \E resp \in Resps :
         /\ Post(_get_json("admin/get_settings_group", ALL_USERS_GROUP_ID,
                           None, 0), resp,
                 IF pending = 1 THEN "done" ELSE "gu_groups")
         /\ pending' = IF resp = "ok" THEN pending - 1 ELSE pending
    /\ UNCHANGED <<envVars, remoteValue, preValue, calls, op, mainLocals,
                   guardLocals, kasm_id, response, result, arg, settingVars>>

\* The field named after the class as written, without the name="Kasm" of
\* models.py 92.
ResponseKey_ClassName(model_type) ==
    CASE model_type = "Session" -> "sessions"
      [] model_type = "User" -> "users"

\* kasm.py 116-119: the field of the response _get_models reads for a model
\* type, f"{model_type.__name__.lower()}s"; models.py 92 names Session "Kasm".
ResponseKey(model_type) ==
    CASE model_type = "Session" -> "kasms"
      [] model_type = "User" -> "users"

\* kasm.py 99-119: _get_models builds one model per entry of that field of
\* the body, in order; a body without the field raises KeyError.
_get_models(model_type, body) ==
    IF ResponseKey(model_type) \in DOMAIN body
    THEN /\ result' = [i \in 1..Len(body[ResponseKey(model_type)]) |->
                         from_api(body[ResponseKey(model_type)][i])]
         /\ Finish(None)
    ELSE /\ Finish("KeyError")
         /\ UNCHANGED result

\* kasm.py 291-303: Kasm.get_sessions, _get_models(Session,
\* "public/get_kasms"): one request, no guard.
GetSessions ==
    /\ pc = "gs_post"
    /\ \E resp \in Resps, kasms \in SessionLists :
         /\ events' = Append(events, Sent(_get_json("public/get_kasms", None,
                                                    None, 0), resp, FALSE))
         /\ IF resp # "ok"
            THEN /\ Finish(ErrOf(resp))
                 /\ UNCHANGED <<response, result>>
            ELSE /\ response' = [kasms |-> kasms]
                 /\ _get_models("Session", [kasms |-> kasms])
    /\ UNCHANGED <<envVars, remoteValue, preValue, calls, op, mainLocals,
                   guardLocals, kasm_id, pending, arg, settingVars>>

\* The operation has returned or raised; the caller goes on.
Return ==
    /\ pc = "done"
    /\ calls < MaxCalls
    /\ pc' = "idle"
    /\ op' = None
    /\ kasm_id' = None
    /\ arg' = 0
    /\ ResetLocals
    /\ UNCHANGED <<envVars, remoteValue, preValue, calls, settingVars>>

Next ==
    \/ CallMain
    \/ MainGetKasms
    \/ MainGetSettings
    \/ MainInput
    \/ MainRaise
    \/ MainKeepalive
    \/ MainRestoreQuota
    \/ MainRestoreOk
    \/ MainSuccess
    \/ CallGetUsers
    \/ CallGetImages
    \/ CallKeepalive
    \/ CallDestroy
    \/ CallRequestSession
    \/ CallGetUser
    \/ CallGetSessions
    \/ CallGetSettingsGroup
    \/ CallSetValue
    \/ GuardConfigs
    \/ GuardPerms
    \/ SessionKeepalive
    \/ SessionDestroy
    \/ RequestSession
    \/ GetSession
    \/ SetValuePost
    \/ SetValueAssign
    \/ GetSettingsGroup
    \/ GetImages
    \/ GetUsers
    \/ GroupFromApi
    \/ GetSessions
    \/ Return

Spec == Init /\ [][Next]_vars

(* ------------------------------ properties ----------------------------- *)

Indices == 1..Len(events)

\* The requests sent to endpoint ep so far.
ReqIdx(ep) == {i \in Indices : events[i].kind = "req" /\ events[i].ep = ep}

\* The requests sent to endpoint ep that got a success status.
OkIdx(ep) == {i \in ReqIdx(ep) : events[i].resp = "ok"}

WriteIdx == ReqIdx("admin/update_settings_group")

KeepaliveIdx == ReqIdx("public/keepalive")

\* The keepalive request was answered with a success status and
\* usage_reached = f.
KeepaliveAnswered(f) ==
    \E i \in OkIdx("public/keepalive") : events[i].usage_reached = f

WasPrinted(msg) == \E i \in Indices : events[i] = Printed(msg)

\* The environment holds both credentials.
Configured == API_KEY # None /\ API_KEY_SECRET # None

\* The temporary write of the CLI has been acknowledged.
TempWriteOk ==
    /\ op = "main"
    /\ WriteIdx # {}
    /\ \A i \in WriteIdx : (\A j \in WriteIdx : i <= j) => events[i].resp = "ok"

\* A write of the original value was issued after the keepalive request.
RestoreIssued ==
    \E i \in WriteIdx :
        /\ events[i].value = preValue
        /\ \E j \in KeepaliveIdx : j < i

\* The permission names a guarded operation requires.
RequiredNames(o) ==
    {Permissions[RequiredOf(o)[i]] : i \in 1..Len(RequiredOf(o))}

\* The guard has fetched the granted permissions of the matching
\* configuration.
GuardDecided ==
    /\ op \in GuardedOps
    /\ OkIdx("admin/get_permissions_group") # {}

\* C1: once the permission names G of the matching configuration are
\* fetched, the wrapped operation is invoked (once) iff every required name
\* is in G; otherwise the call ends with ApiPermissionError, nothing of the
\* operation is sent, and the missing permissions listed are exactly the
\* required ones that are not in G.
C1_GuardAllowsIffCovered ==
    GuardDecided =>
        /\ invoked \in {0, 1}
        /\ invoked = 1 <=> RequiredNames(op) \subseteq granted
        /\ ~(RequiredNames(op) \subseteq granted) =>
              /\ pc = "done"
              /\ err = "ApiPermissionError"
              /\ Len(events) = 2
              /\ {Permissions[missing[i]] : i \in 1..Len(missing)}
                   = RequiredNames(op) \ granted

\* C1 witness: keepalive denied with one of its two permissions granted.
C1_Witness ==
    /\ op = "keepalive"
    /\ GuardDecided
    /\ "User" \in granted
    /\ missing = <<"USER_AUTH_SESSION">>
    /\ err = "ApiPermissionError"
    /\ invoked = 0

\* C2: when the CLI has returned after an acknowledged temporary write and
\* a keepalive request answered with a success status, the service's value
\* of the all-users keepalive setting is the value it had before the run.
C2_SettingRestored ==
    (/\ Configured
     /\ op = "main"
     /\ pc = "done"
     /\ err = None
     /\ TempWriteOk
     /\ OkIdx("public/keepalive") # {})
        => remoteValue = preValue

\* C3: when the CLI has ended after an acknowledged temporary write, a
\* restore write of the original value has been issued, whatever the
\* keepalive request did.
C3_RestoreOnEveryExit ==
    (/\ Configured
     /\ op = "main"
     /\ pc = "done"
     /\ TempWriteOk
     /\ KeepaliveIdx # {})
        => RestoreIssued

\* C4: outside the gap between the acknowledgement and the assignment, the
\* local value of the Setting is the value of its last acknowledged write
\* (or the value it was deserialized with); set_value raises iff its request
\* fails, and leaves v as the local value iff it does not raise.
C4_LocalValueIsCommitted ==
    /\ pc # "sv_assign" => value = committed
    /\ (op = "set_value" /\ pc = "done") =>
          /\ Len(events) = 1
          /\ err = None <=> events[1].resp = "ok"
          /\ err = None => value = arg
          /\ err # None => err \in {"HTTPError", "ConnectionError"}

\* C4 witness: a set_value(7200) that failed on a Setting whose local value
\* 3600 is left as it was.
C4_Witness ==
    /\ op = "set_value"
    /\ pc = "done"
    /\ err = "HTTPError"
    /\ arg = 7200
    /\ value = 3600

\* C5: a Session.keepalive the guard has allowed sends one keepalive request;
\* when it is answered with a success status the call raises
\* UsageQuotaReachedError if usage_reached is set and returns otherwise.
C5_KeepaliveQuota ==
    (op = "keepalive" /\ invoked = 1) =>
        /\ Cardinality(KeepaliveIdx) <= 1
        /\ pc = "done" =>
              /\ Cardinality(KeepaliveIdx) = 1
              /\ KeepaliveAnswered(TRUE) => err = "UsageQuotaReachedError"
              /\ KeepaliveAnswered(FALSE) => err = None

\* C5 witness: an allowed keepalive answered with usage_reached set.
C5_Witness ==
    /\ op = "keepalive"
    /\ pc = "done"
    /\ invoked = 1
    /\ KeepaliveAnswered(TRUE)
    /\ err = "UsageQuotaReachedError"

\* The configuration error kind of the error taxonomy.
ConfigurationErrors == {"ConfigurationMissing"}

\* No configuration the service listed has the client's key.
NoMatchingConfig ==
    /\ Configured
    /\ op \in GuardedOps
    /\ OkIdx("admin/get_api_configs") # {}
    /\ \A i \in 1..Len(api_configs) : api_configs[i].api_key # kasm.api_key

\* C6: when no listed configuration has the client's key, the guarded call
\* ends with a configuration error, which is not ApiPermissionError, and the
\* wrapped operation is not invoked.
C6_ConfigurationErrorRaised ==
    NoMatchingConfig =>
        /\ pc = "done"
        /\ err \in ConfigurationErrors
        /\ err # "ApiPermissionError"
        /\ invoked = 0

\* Every exchange of the run so far got a success status.
AllOk == \A i \in Indices : events[i].resp = "ok"

IsWrite(e) == e.kind = "req" /\ e.ep = "admin/update_settings_group"

\* C7: a CLI run in which every request succeeded and the keepalive response
\* had usage_reached = false consists of the two reads, a write of the entered
\* hours times 3600, one keepalive request for the selected session, a write
\* of the original value, and the success line, in this order.
C7_SuccessfulRunOrder ==
    (op = "main" /\ pc = "done" /\ AllOk /\ KeepaliveAnswered(FALSE)) =>
        /\ Len(events) = 6
        /\ events[1].ep = "public/get_kasms"
        /\ events[2].ep = "admin/get_settings_group"
        /\ IsWrite(events[3])
        /\ extra_hours = "1" => events[3].value = 3600
        /\ extra_hours = "2" => events[3].value = 7200
        /\ events[4].kind = "req"
        /\ events[4].ep = "public/keepalive"
        /\ events[4].target = session_id
        /\ \E i \in 1..Len(sessions) : sessions[i] = session_id
        /\ IsWrite(events[5])
        /\ events[5].value = preValue
        /\ events[5].value = keepalive
        /\ events[6] = Printed(MSG_SUCCESS)

\* C7 witness: the scenario of one session abc, 2 hours entered, original
\* value 21600.
C7_Witness ==
    /\ op = "main"
    /\ pc = "done"
    /\ sessions = <<"abc">>
    /\ extra_hours = "2"
    /\ Len(events) = 6
    /\ AllOk
    /\ events[3].value = 7200
    /\ events[4].target = "abc"
    /\ events[5].value = 21600
    /\ events[6] = Printed(MSG_SUCCESS)

\* The endpoints that change a session.
SessionMutatingEndpoints ==
    {"public/keepalive", "public/destroy_kasm", "public/request_kasm"}

\* C8: in a CLI run whose keepalive response had usage_reached = true the
\* error line is printed and the success line never is, the only request
\* that changes a session is that keepalive request, and the run ends with a
\* restore write of the original value issued; the success line is printed
\* only after a keepalive response with usage_reached = false.
C8_QuotaRun ==
    op = "main" =>
        /\ KeepaliveAnswered(TRUE) =>
              /\ WasPrinted(MSG_QUOTA)
              /\ ~WasPrinted(MSG_SUCCESS)
              /\ pc = "done" => RestoreIssued
              /\ Cardinality({i \in Indices :
                     /\ events[i].kind = "req"
                     /\ events[i].ep \in SessionMutatingEndpoints}) = 1
        /\ WasPrinted(MSG_SUCCESS) => KeepaliveAnswered(FALSE)

\* C8 witness: a run that ended after the quota answer and its restore write.
C8_Witness ==
    /\ op = "main"
    /\ pc = "done"
    /\ err = None
    /\ KeepaliveAnswered(TRUE)
    /\ WasPrinted(MSG_QUOTA)
    /\ RestoreIssued

\* C9: with the API key or the API key secret absent from the environment,
\* no request is sent.
C9_NoRequestWithoutCredentials ==
    (API_KEY = None \/ API_KEY_SECRET = None) =>
        \A i \in Indices : events[i].kind # "req"

\* C10: a request that fails is the last thing its operation does: the
\* operation ends there with the transport error and sends nothing after it
\* (so no request is retried); a failed temporary write of the CLI is
\* followed by no keepalive request.
C10_FailureEndsOperation ==
    /\ \A i \in Indices :
          (events[i].kind = "req" /\ events[i].resp # "ok") =>
              /\ i = Len(events)
              /\ pc = "done"
              /\ err = IF events[i].resp = "status" THEN "HTTPError"
                       ELSE "ConnectionError"
    /\ (op = "main" /\ WriteIdx # {} /\ ~TempWriteOk) => KeepaliveIdx = {}

\* C10 witness: the CLI ended by a non-success status of its temporary write.
C10_Witness ==
    /\ op = "main"
    /\ pc = "done"
    /\ err = "HTTPError"
    /\ Len(events) = 3
    /\ IsWrite(events[3])
    /\ events[3].resp = "status"
    /\ KeepaliveIdx = {}

\* The endpoints of the two lookups of the permission guard.
GuardEndpoints == {"admin/get_api_configs", "admin/get_permissions_group"}

\* C11: a Kasm.get_sessions whose request got a success status returns
\* normally a list as long as the kasms array of the response, its i-th
\* Session being the i-th entry; it sent that one request and no lookup of
\* the permission guard.
C11_SessionsMatchResponse ==
    /\ op = "get_sessions" =>
          /\ invoked = 0
          /\ \A i \in Indices : events[i].ep \notin GuardEndpoints
    /\ (op = "get_sessions" /\ pc = "done" /\ OkIdx("public/get_kasms") # {}) =>
          /\ err = None
          /\ Len(events) = 1
          /\ Len(result) = Len(response.kasms)
          /\ \A i \in 1..Len(response.kasms) :
                result[i].kasm_id = response.kasms[i]

\* C11 witness: the service reported two sessions and two were returned, in
\* the order reported.
C11_Witness ==
    /\ op = "get_sessions"
    /\ pc = "done"
    /\ err = None
    /\ response.kasms = <<"abc", "def">>
    /\ Len(result) = 2
    /\ result[2].kasm_id = "def"

\* The first request of the wrapped function of each guarded operation.
OwnEndpoint(o) ==
    CASE o = "get_users" -> "public/get_users"
      [] o = "get_images" -> "public/get_images"
      [] o = "keepalive" -> "public/keepalive"
      [] o = "destroy" -> "public/destroy_kasm"
      [] o = "request_session" -> "public/request_kasm"

\* C12: a call of a guarded operation sends first the request for the API
\* configurations, then the request for the permissions of the matching
\* one, and a request of its own only after both got a success status and no
\* required permission is missing; the wrapped function then runs once and
\* the call ends as it ended; in every other case the call ends with the
\* error of the lookup or of the guard and no request of the operation is
\* sent.
C12_GuardBeforeOperation ==
    op \in GuardedOps =>
        /\ invoked \in {0, 1}
        /\ \A i \in Indices :
              /\ i = 1 => events[i].ep = "admin/get_api_configs"
              /\ i = 2 =>
                    /\ events[i].ep = "admin/get_permissions_group"
                    /\ events[1].resp = "ok"
                    /\ events[i].target = api_config.name
                    /\ api_config.api_key = kasm.api_key
                    /\ \E j \in 1..Len(api_configs) : api_configs[j] = api_config
              /\ i >= 3 => events[i].ep \notin GuardEndpoints
        /\ Len(events) >= 3 =>
              /\ events[1].resp = "ok"
              /\ events[2].resp = "ok"
              /\ missing = <<>>
              /\ RequiredNames(op) \subseteq granted
              /\ invoked = 1
              /\ events[3].ep = OwnEndpoint(op)
        /\ invoked = 1 <=>
              (Len(events) >= 2 /\ events[2].resp = "ok" /\ missing = <<>>)
        /\ (pc = "done" /\ invoked = 0) =>
              /\ Len(events) <= 2
              /\ err \in {"HTTPError", "ConnectionError", "StopIteration",
                          "ApiPermissionError"}
        /\ (pc = "done" /\ invoked = 1) =>
              /\ Len(events) >= 3
              /\ err \in {None, "HTTPError", "ConnectionError",
                          "UsageQuotaReachedError"}
              /\ err = None <=>
                    (/\ events[Len(events)].resp = "ok"
                     /\ ~events[Len(events)].usage_reached)

\* C12 witness: an allowed Session.destroy, its own request third.
C12_Witness ==
    /\ op = "destroy"
    /\ pc = "done"
    /\ invoked = 1
    /\ Len(events) = 3
    /\ events[1].ep = "admin/get_api_configs"
    /\ events[2].ep = "admin/get_permissions_group"
    /\ events[3].ep = "public/destroy_kasm"
    /\ events[3].target = kasm_id

\* C13: in the CLI the keepalive request names the session displayed under
\* the number entered (under 1 when nothing is entered), and a number that
\* is under no displayed session leads to no setting write and to no
\* keepalive request.
C13_SelectionInRange ==
    (Configured /\ op = "main" /\ (choice = "" \/ IsInt(choice))) =>
        LET n == IF choice = "" THEN 1 ELSE IntOf(choice) IN
        IF n \in 1..Len(sessions)
        THEN \A i \in KeepaliveIdx :
                events[i].target = DisplayedUnder(sessions, n)
        ELSE WriteIdx = {} /\ KeepaliveIdx = {}

====
